---------------------------- MODULE Spec2Model ----------------------------
(***************************************************************************)
(* A model of the RADIUS codec of andrewz1/radius-draft: the attribute     *)
(* dictionary (a RWMutex-guarded pair of maps), the byte cursor rBuf, the  *)
(* packet decoder ParsePacket/parseAttr/parseVSA, the encode-side          *)
(* Packet.AddAttr/attrConv and the lazy evaluation Attr.GetEData.          *)
(*                                                                         *)
(* Go values are modelled as follows.                                      *)
(*   byte, uint16      naturals below 2^8, 2^16                            *)
(*   uint32, uint64    big-endian sequences of 16-bit limbs                *)
(*   []byte            a slice record [arr, off, len, cap]: a window into  *)
(*                     the backing array arr, as in the Go runtime         *)
(*   string            a sequence of character codes                       *)
(*   *AttrData         the (immutable) record itself, or Nil               *)
(*   *Packet, *Attr    an index into pkts / heap, or 0 for nil             *)
(***************************************************************************)
EXTENDS Integers, Sequences, FiniteSets, TLC

VARIABLES
    dict,     \* attrDict: [byName, byAttr], two maps onto AttrData records
    mu,       \* attrDict.RWMutex: [writer, readers]
    procs,    \* goroutines using the dictionary: pc, arguments, locals, result
    succ,     \* history: the definitions whose AddAttrFull returned nil
    heap,     \* every Attr allocated so far (index = the *Attr pointer)
    pkts,     \* every Packet allocated so far (index = the *Packet pointer)
    ps,       \* the running ParsePacket call: pc, buf, cursors, locals, result
    call      \* the last encode-side call and its result

vars == <<dict, mu, procs, succ, heap, pkts, ps, call>>

Nil == [nil |-> TRUE]

-----------------------------------------------------------------------------
(* Data types and constants of the dictionary                              *)

AttrEncNone == 0
AttrEncUsr == 1
AttrEncTun == 2
AttrEncAsc == 3

DTypeRaw == 0
DTypeString == 1
DTypeIP4 == 2
DTypeIP4Pfx == 3
DTypeInt == 4
DTypeInt64 == 5
DTypeDate == 6
DTypeIfID == 7
DTypeIP6 == 8
DTypeIP6Pfx == 9
DTypeByte == 10
DTypeEth == 11
DTypeShort == 12
DTypeSInt == 13
DTypeVSA == 14

AttrVSA == 26

MinPLen == 20
MaxPLen == 4096

Byte == 0..255

\* strings.ToLower on one ASCII character code.
LowerChar(c) == IF c >= 65 /\ c <= 90 THEN c + 32 ELSE c

\* nameKey: strings.ToLower(name)
nameKey(name) == [i \in 1..Len(name) |-> LowerChar(name[i])]

\* attrKey: uint64(atype) for a plain attribute, else
\* uint64(vid)<<16 | uint64(vtype)<<8 | uint64(atype).  The 48-bit result is
\* kept as two limbs <<key >> 16, key & 0xffff>>.
attrKey(atype, vid, vtype) ==
    IF atype # AttrVSA THEN <<0, atype>>
    ELSE <<vid, vtype * 256 + atype>>

\* &AttrData{...}
AttrData(name, atype, vid, vtype, dtype, enc, tagged) ==
    [name |-> name, atype |-> atype, vid |-> vid, vtype |-> vtype,
     dtype |-> dtype, enc |-> enc, tagged |-> tagged]

\* var attrDict = &attrStore{byName: make(map), byAttr: make(map)}
EmptyDict == [byName |-> <<>>, byAttr |-> <<>>]

\* map read with the comma-ok idiom
MapHas(m, k) == k \in DOMAIN m
MapGet(m, k) == IF k \in DOMAIN m THEN m[k] ELSE Nil
MapPut(m, k, v) == [x \in (DOMAIN m) \cup {k} |-> IF x = k THEN v ELSE m[x]]
MapRange(m) == {m[k] : k \in DOMAIN m}

\* (*AttrData).IsTagged: false on nil
IsTagged(ad) == IF ad = Nil THEN FALSE ELSE ad.tagged

\* GetAttrByName, GetAttrByAttrFull and the two wrappers, on a dictionary d
\* read under the read lock.
GetAttrByName(d, name) == MapGet(d.byName, nameKey(name))
GetAttrByAttrFull(d, atype, vid, vtype) == MapGet(d.byAttr, attrKey(atype, vid, vtype))
GetAttrByAttr(d, atype) == GetAttrByAttrFull(d, atype, 0, 0)
GetVSAByAttr(d, vid, vtype) == GetAttrByAttrFull(d, AttrVSA, vid, vtype)

\* AddExists with the key index forgotten.
AddExistsNameOnly(d, nKey, aKey) == MapHas(d.byName, nKey)

\* The existence test of AddAttrFull: okName || okAttr.
AddExists(d, nKey, aKey) == MapHas(d.byName, nKey) \/ MapHas(d.byAttr, aKey)

\* AddAttrFull run by one goroutine with no other goroutine in between:
\* [err, dict].
AddAttrFull(d, name, atype, vid, vtype, dtype, enc, tagged) ==
    LET aKey == attrKey(atype, vid, vtype)
        nKey == nameKey(name)
        attr == AttrData(name, atype, vid, vtype, dtype, enc, tagged)
    IN  IF AddExists(d, nKey, aKey)
        THEN [err |-> TRUE, dict |-> d]
        ELSE [err |-> FALSE,
              dict |-> [byName |-> MapPut(d.byName, nKey, attr),
                        byAttr |-> MapPut(d.byAttr, aKey, attr)]]

\* sync.RWMutex: Lock waits for the writer and for every reader to leave,
\* RLock waits for the writer to leave.
MuFree == [writer |-> 0, readers |-> {}]
CanLock(m) == m.writer = 0 /\ m.readers = {}
Lock(m, g) == [m EXCEPT !.writer = g]
Unlock(m) == [m EXCEPT !.writer = 0]
\* RLock that does not wait for the writer.
CanRLockAlways(m) == TRUE

CanRLock(m) == m.writer = 0
RLock(m, g) == [m EXCEPT !.readers = @ \cup {g}]
RUnlock(m, g) == [m EXCEPT !.readers = @ \ {g}]

-----------------------------------------------------------------------------
(* Go slices and the byte cursor rBuf                                      *)

\* A []byte over the whole array arr.
MakeSlice(arr) == [arr |-> arr, off |-> 0, len |-> Len(arr), cap |-> Len(arr)]
NilSlice == MakeSlice(<<>>)

\* s[i] is in range (the run-time check of an index expression).
InIndex(s, i) == i >= 0 /\ i < s.len
\* s[i]
At(s, i) == s.arr[s.off + i + 1]
\* s[lo:hi] is in range: 0 <= lo <= hi <= cap(s)
InSlice(s, lo, hi) == 0 <= lo /\ lo <= hi /\ hi <= s.cap
\* s[lo:hi]
SubSlice(s, lo, hi) ==
    [arr |-> s.arr, off |-> s.off + lo, len |-> hi - lo, cap |-> s.cap - lo]
\* s[lo:] is in range: 0 <= lo <= len(s)
InSliceFrom(s, lo) == 0 <= lo /\ lo <= s.len
\* s[lo:]
SliceFrom(s, lo) == SubSlice(s, lo, s.len)
\* The bytes a slice holds.
Bytes(s) == [i \in 1..s.len |-> s.arr[s.off + i]]

\* newBuf counting the capacity of the slice instead of its length.
newBufCap(buf) == [buf |-> buf, bp |-> 0, bl |-> buf.cap]

\* newBuf
newBuf(buf) == [buf |-> buf, bp |-> 0, bl |-> Len(Bytes(buf))]

\* (rb *rBuf) getLeft
getLeft(rb) == rb.bl

\* The test made against what was left before the 2-byte header.
getAttrOverrunHeader(l, tl) == l > tl + 2

\* The test of getAttr that the value fits what is left: l > tl.
getAttrOverrun(l, tl) == l > tl

\* (rb *rBuf) getAttr: [t, v, err, rb, panic], rb the cursor after the call.
\* panic: an index or slice expression out of range.
getAttr(rb) ==
    LET fail(e) == [t |-> 0, v |-> NilSlice, err |-> e, rb |-> rb, panic |-> FALSE]
        boom == [t |-> 0, v |-> NilSlice, err |-> "nil", rb |-> rb, panic |-> TRUE]
    IN  IF rb.bl < 2 THEN fail("errNoData")
        ELSE LET tp == rb.bp
                 tl == rb.bl
             IN  IF ~InIndex(rb.buf, tp) \/ ~InIndex(rb.buf, tp + 1) THEN boom
                 ELSE LET t == At(rb.buf, tp)
                          l == At(rb.buf, tp + 1) - 2
                      IN  IF l < 0 THEN [fail("errInvalid") EXCEPT !.t = t]
                          ELSE IF getAttrOverrun(l, tl - 2)
                               THEN [fail("errNoData") EXCEPT !.t = t]
                          ELSE IF ~InSlice(rb.buf, tp + 2, tp + 2 + l) THEN boom
                          ELSE [t |-> t,
                                v |-> SubSlice(rb.buf, tp + 2, tp + 2 + l),
                                err |-> "nil",
                                rb |-> [rb EXCEPT !.bp = tp + 2 + l, !.bl = tl - 2 - l],
                                panic |-> FALSE]

\* binary.BigEndian.Uint16(b): b[1] is read first (the bounds hint), so a
\* slice shorter than 2 bytes panics.
Uint16Ok(b) == InIndex(b, 1)
Uint16(b) == At(b, 0) * 256 + At(b, 1)

\* binary.BigEndian.Uint32(b) of a vendor id
Uint32Ok(b) == InIndex(b, 3)
Uint32(b) == ((At(b, 0) * 256 + At(b, 1)) * 256 + At(b, 2)) * 256 + At(b, 3)

-----------------------------------------------------------------------------
(* Packets, attributes and ParsePacket                                     *)

\* &Attr{...}: the zero value of every field not set
ZeroAttr ==
    [atype |-> 0, alen |-> 0, vid |-> 0, vtype |-> 0, vlen |-> 0, tag |-> 0,
     data |-> NilSlice, edata |-> Nil, ad |-> Nil, pkt |-> 0]

\* &Packet{...}: the zero value of every field not set
ZeroPacket ==
    [code |-> 0, id |-> 0, len |-> 0, auth |-> NilSlice, attrs |-> <<>>,
     vids |-> <<>>, secret |-> NilSlice, data |-> NilSlice, udata |-> Nil,
     reply |-> FALSE]

\* The tag/data split of parseAttr and parseVSA: [panic, tag, data].
\* A tagged definition indexes ad[0] and slices ad[1:].
splitTag(def, ad) ==
    IF def # Nil /\ IsTagged(def)
    THEN IF ~InIndex(ad, 0) \/ ~InSliceFrom(ad, 1)
         THEN [panic |-> TRUE, tag |-> 0, data |-> NilSlice]
         ELSE [panic |-> FALSE, tag |-> At(ad, 0), data |-> SliceFrom(ad, 1)]
    ELSE [panic |-> FALSE, tag |-> 0, data |-> ad]

\* (p *Packet) parseAttr: the Attr it builds, [panic, attr]
parseAttr(d, p, at, ad) ==
    LET def == GetAttrByAttr(d, at)
        sp == splitTag(def, ad)
    IN  [panic |-> sp.panic,
         attr |-> [ZeroAttr EXCEPT !.atype = at,
                                   !.alen = (ad.len + 2) % 256,
                                   !.ad = def,
                                   !.pkt = p,
                                   !.tag = sp.tag,
                                   !.data = sp.data]]

\* The Attr one iteration of parseVSA builds, [panic, attr]
parseVSAAttr(d, p, vid, vt, vd) ==
    LET def == GetVSAByAttr(d, vid, vt)
        sp == splitTag(def, vd)
    IN  [panic |-> sp.panic,
         attr |-> [ZeroAttr EXCEPT !.atype = AttrVSA,
                                   !.alen = (vd.len + 8) % 256,
                                   !.vid = vid,
                                   !.vtype = vt,
                                   !.vlen = (vd.len + 2) % 256,
                                   !.ad = def,
                                   !.pkt = p,
                                   !.tag = sp.tag,
                                   !.data = sp.data]]

\* The length test of parseVSA: len(adata) < 6
vsaTooShort(adata) == adata.len < 6

\* The header tests without the upper bound MaxPLen.
headerCheckNoMax(buf) ==
    IF buf.len < MinPLen THEN [panic |-> FALSE, res |-> "short", pl |-> 0]
    ELSE LET pl == Uint16(SliceFrom(buf, 2))
         IN  IF pl < MinPLen \/ pl > buf.len
             THEN [panic |-> FALSE, res |-> "len", pl |-> pl]
             ELSE [panic |-> FALSE, res |-> "ok", pl |-> pl]

\* The header tests of ParsePacket, in order: "short", "len" or "ok".
headerCheck(buf) ==
    IF buf.len < MinPLen THEN [panic |-> FALSE, res |-> "short", pl |-> 0]
    ELSE IF ~InSliceFrom(buf, 2) \/ ~Uint16Ok(SliceFrom(buf, 2))
         THEN [panic |-> TRUE, res |-> "ok", pl |-> 0]
    ELSE LET pl == Uint16(SliceFrom(buf, 2))
         IN  IF pl < MinPLen \/ pl > MaxPLen \/ pl > buf.len
             THEN [panic |-> FALSE, res |-> "len", pl |-> pl]
             ELSE [panic |-> FALSE, res |-> "ok", pl |-> pl]

\* The deferred function leaving the attributes as they are.
clearRefsNone(h, attrs) == h

\* The deferred function of ParsePacket on err != nil && pkt != nil: every
\* attribute of the packet loses its back-reference.
clearRefs(h, attrs) ==
    [i \in 1..Len(h) |->
        IF \E k \in 1..Len(attrs) : attrs[k] = i THEN [h[i] EXCEPT !.pkt = 0] ELSE h[i]]

\* p.attrs = append(p.attrs, attr) with attr freshly allocated
appendAttr(ks, h, p, attr) ==
    [heap |-> Append(h, attr),
     pkts |-> [ks EXCEPT ![p].attrs = Append(@, Len(h) + 1)]]

\* A range that may yield a key twice and miss another.
RangeOrdersRepeating(S) == [1..Cardinality(S) -> S]

\* The orders in which ranging over the map vmap can yield its keys.
RangeOrders(S) ==
    {q \in [1..Cardinality(S) -> S] : \A i, j \in 1..Cardinality(S) : i # j => q[i] # q[j]}

NoCursor == newBuf(NilSlice)

\* No ParsePacket call yet.
NoParse ==
    [pc |-> "none", buf |-> NilSlice, pl |-> 0, rb |-> NoCursor, pkt |-> 0,
     err |-> "nil", adata |-> NilSlice, vid |-> 0, vrb |-> NoCursor, vmap |-> {}]

\* No encode-side or evaluation call yet.
NoCall == [op |-> "none", err |-> "nil", val |-> Nil]

\* return with err set: the deferred function runs.
ParseFail(e) ==
    /\ ps' = [ps EXCEPT !.pc = "done", !.err = e, !.pkt = 0]
    /\ heap' = IF ps.pkt # 0 THEN clearRefs(heap, pkts[ps.pkt].attrs) ELSE heap

\* A run-time panic leaves ParsePacket without a return value.
ParsePanic == ps' = [ps EXCEPT !.pc = "panic"]

\* ParsePacket(buf) up to the attribute loop.
ParsePacketStart(b) ==
    /\ ps.pc = "none"
    /\ LET buf == MakeSlice(b)
           hc == headerCheck(buf)
       IN  IF hc.panic
           THEN /\ ps' = [ps EXCEPT !.pc = "panic", !.buf = buf]
                /\ UNCHANGED <<heap, pkts>>
           ELSE IF hc.res = "short"
           THEN /\ ps' = [ps EXCEPT !.pc = "done", !.buf = buf, !.err = "Packet too short"]
                /\ UNCHANGED <<heap, pkts>>
           ELSE IF hc.res = "len"
           THEN /\ ps' = [ps EXCEPT !.pc = "done", !.buf = buf, !.pl = hc.pl,
                                    !.err = "Packet len error"]
                /\ UNCHANGED <<heap, pkts>>
           ELSE /\ pkts' = Append(pkts,
                        [ZeroPacket EXCEPT !.code = At(buf, 0),
                                           !.id = At(buf, 1),
                                           !.len = hc.pl,
                                           !.auth = SubSlice(buf, 4, 20),
                                           !.data = buf])
                /\ ps' = [ps EXCEPT !.pc = IF hc.pl = MinPLen THEN "done" ELSE "loop",
                                    !.buf = buf,
                                    !.pl = hc.pl,
                                    !.pkt = Len(pkts) + 1,
                                    !.rb = IF hc.pl = MinPLen THEN NoCursor
                                           ELSE newBuf(SliceFrom(buf, MinPLen))]
                /\ heap' = heap
    /\ UNCHANGED <<dict, mu, procs, succ, call>>

\* One iteration of the loop of ParsePacket: getAttr, then parseAttr or the
\* entry of parseVSA.
ParsePacketAttr ==
    /\ ps.pc = "loop"
    /\ getLeft(ps.rb) >= 2
    /\ LET r == getAttr(ps.rb)
       IN  IF r.panic THEN ParsePanic /\ UNCHANGED <<heap, pkts>>
           ELSE IF r.err # "nil" THEN ParseFail(r.err) /\ UNCHANGED pkts
           ELSE IF r.t # AttrVSA
           THEN LET pa == parseAttr(dict, ps.pkt, r.t, r.v)
                    ap == appendAttr(pkts, heap, ps.pkt, pa.attr)
                IN  IF pa.panic THEN ParsePanic /\ UNCHANGED <<heap, pkts>>
                    ELSE /\ ps' = [ps EXCEPT !.rb = r.rb]
                         /\ heap' = ap.heap
                         /\ pkts' = ap.pkts
           ELSE IF vsaTooShort(r.v) THEN ParseFail("VSA too short") /\ UNCHANGED pkts
           ELSE IF ~Uint32Ok(r.v) \/ ~InSliceFrom(r.v, 4)
           THEN ParsePanic /\ UNCHANGED <<heap, pkts>>
           ELSE /\ ps' = [ps EXCEPT !.pc = "vloop",
                                    !.rb = r.rb,
                                    !.adata = r.v,
                                    !.vid = Uint32(r.v),
                                    !.vrb = newBuf(SliceFrom(r.v, 4))]
                /\ UNCHANGED <<heap, pkts>>
    /\ UNCHANGED <<dict, mu, procs, succ, call>>

\* One iteration of the loop of parseVSA.
ParseVSAAttr ==
    /\ ps.pc = "vloop"
    /\ getLeft(ps.vrb) >= 2
    /\ LET r == getAttr(ps.vrb)
       IN  IF r.panic THEN ParsePanic /\ UNCHANGED <<heap, pkts>>
           ELSE IF r.err # "nil" THEN ParseFail(r.err) /\ UNCHANGED pkts
           ELSE LET pa == parseVSAAttr(dict, ps.pkt, ps.vid, r.t, r.v)
                    ap == appendAttr(pkts, heap, ps.pkt, pa.attr)
                IN  IF pa.panic THEN ParsePanic /\ UNCHANGED <<heap, pkts>>
                    ELSE /\ ps' = [ps EXCEPT !.vrb = r.rb]
                         /\ heap' = ap.heap
                         /\ pkts' = ap.pkts
    /\ UNCHANGED <<dict, mu, procs, succ, call>>

\* parseVSA returns vid, nil: vmap[vid] = struct{}{}
ParseVSAReturn ==
    /\ ps.pc = "vloop"
    /\ getLeft(ps.vrb) < 2
    /\ ps' = [ps EXCEPT !.pc = "loop", !.vmap = @ \cup {ps.vid}]
    /\ UNCHANGED <<dict, mu, procs, succ, heap, pkts, call>>

\* The loop of ParsePacket ends: pkt.vids is filled from vmap, return.
ParsePacketReturn ==
    /\ ps.pc = "loop"
    /\ getLeft(ps.rb) < 2
    /\ \E q \in RangeOrders(ps.vmap) :
           pkts' = [pkts EXCEPT ![ps.pkt].vids = q]
    /\ ps' = [ps EXCEPT !.pc = "done"]
    /\ UNCHANGED <<dict, mu, procs, succ, heap, call>>

-----------------------------------------------------------------------------
(* ParsePacket on bounded inputs                                           *)

\* The bytes the attribute stream is drawn from: 26 is AttrVSA, 0 and 1 are
\* invalid TLV lengths, 2 and 3 the shortest valid ones.
ByteAlphabet == {0, 1, 2, 3, 26}
MaxFree == 4

SeqsUpTo(S, n) == UNION {[1..k -> S] : k \in 0..n}

\* The head of a VSA: type 26, length, vendor id 3.
VSAHeads == {<<26, l, 0, 0, 0, 3>> : l \in {8, 9, 10}}

\* Whole attributes: a plain one of type 2, one of type 3 with one value
\* byte, VSAs of vendor 3 and 2 with one nested attribute, and two broken
\* ones: a nested length past the VSA body, a plain length past the stream.
Items ==
    {<<2, 2>>, <<3, 3, 1>>,
     <<26, 8, 0, 0, 0, 3, 3, 2>>, <<26, 9, 0, 0, 0, 3, 3, 3, 1>>,
     <<26, 8, 0, 0, 0, 2, 1, 2>>,
     <<26, 8, 0, 0, 0, 3, 3, 3>>, <<2, 26>>}
MaxItems == 3

RECURSIVE ItemStreams(_)
ItemStreams(n) ==
    IF n = 0 THEN {<<>>}
    ELSE LET shorter == ItemStreams(n - 1)
         IN  shorter \cup {s \o i : s \in shorter, i \in Items}

\* Attribute streams: any bytes of the alphabet, alone or after a VSA head;
\* and every sequence of at most MaxItems whole attributes.
Bodies ==
    {h \o f : h \in {<<>>} \cup VSAHeads, f \in SeqsUpTo(ByteAlphabet, MaxFree)}
    \cup ItemStreams(MaxItems)

\* A 20-byte header declaring length pl: code 1, id 7, authenticator 101..116.
Header(pl) == <<1, 7, pl \div 256, pl % 256>> \o [i \in 1..16 |-> 100 + i]

\* Buffers that exercise the attribute walk: the declared length is the
\* buffer's, or 22 with more bytes behind it.
WalkInputs ==
    UNION {{Header(pl) \o b : pl \in {MinPLen + Len(b)} \cup (IF Len(b) > 2 THEN {22} ELSE {})}
           : b \in Bodies}

\* Buffers that exercise the header tests: buffer lengths and declared
\* lengths around MinPLen and MaxPLen, zero bytes after the header.
HeaderBufLens == {0, 1, 3, 4, 19, 20, 21, 4096, 4097}
HeaderDeclLens == {0, 19, 20, 21, 4096, 4097, 65535}
HeaderInputs ==
    {SubSeq(Header(pl) \o [i \in 1..(n - MinPLen) |-> 0], 1, n)
        : n \in HeaderBufLens, pl \in HeaderDeclLens}

ParseInputs == WalkInputs \cup HeaderInputs

\* Registrations before the decode, <<name, <<atype, vid, vtype>>, tagged>>:
\* "T" plain type 3 tagged, "V" vendor 3 type 3 tagged, "U" plain type 3
\* untagged.
ParseDefs ==
    {<<(<<84>>), <<3, 0, 0>>, TRUE>>,
     <<(<<86>>), <<26, 3, 3>>, TRUE>>,
     <<(<<85>>), <<3, 0, 0>>, FALSE>>}

\* AddAttrFull called by the only goroutine, before the decode starts.
Register(name, id, dtype, enc, tagged) ==
    /\ ps.pc = "none"
    /\ call.op = "none"
    /\ LET r == AddAttrFull(dict, name, id[1], id[2], id[3], dtype, enc, tagged)
       IN  /\ ~r.err
           /\ dict' = r.dict
    /\ UNCHANGED <<mu, procs, succ, heap, pkts, ps, call>>

InitParse ==
    /\ dict = EmptyDict
    /\ mu = MuFree
    /\ procs = <<>>
    /\ succ = <<>>
    /\ heap = <<>>
    /\ pkts = <<>>
    /\ ps = NoParse
    /\ call = NoCall

NextParse ==
    \/ ps.pc = "none" /\ \E d \in ParseDefs : Register(d[1], d[2], DTypeString, AttrEncNone, d[3])
    \/ ps.pc = "none" /\ \E b \in ParseInputs : ParsePacketStart(b)
    \/ ParsePacketAttr
    \/ ParseVSAAttr
    \/ ParseVSAReturn
    \/ ParsePacketReturn

SpecParse == InitParse /\ [][NextParse]_vars

-----------------------------------------------------------------------------
(* Typed values: Attr.GetEData and attrConv                                *)

\* A value held in an interface{}: [k |-> its dynamic type, v |-> the value].
\* k is "bytes" ([]byte, v a slice), "string" (v the bytes of the string),
\* "ip" (net.IP, v a slice), "hwaddr" (net.HardwareAddr, v a slice),
\* "uint32", "uint64", "int64" (v big-endian 16-bit limbs), "uint16",
\* "byte", "int" (v a number), "time" (time.Time, v = [sec, nsec], sec the
\* limbs of the int64 Unix second).
Val(k, v) == [k |-> k, v |-> v]

\* binary.BigEndian.Uint16/32/64 of the first 2n bytes of a slice, as n limbs.
BigEndian(b, n) == [i \in 1..n |-> At(b, 2 * i - 2) * 256 + At(b, 2 * i - 1)]

\* binary.BigEndian.PutUint16/32/64 into a fresh array: the bytes of limbs v.
PutBigEndian(v) ==
    [i \in 1..(2 * Len(v)) |->
        IF i % 2 = 1 THEN v[(i + 1) \div 2] \div 256 ELSE v[i \div 2] % 256]

\* uint32(x) of a 64-bit x: its two low limbs.
Low32(v) == <<v[3], v[4]>>

\* The exact data length GetEData wants per data type (0: no such test).
evalLen(dtype) ==
    CASE dtype \in {DTypeIP4, DTypeInt, DTypeDate} -> 4
      [] dtype \in {DTypeInt64, DTypeIfID} -> 8
      [] dtype = DTypeIP6 -> 16
      [] dtype = DTypeByte -> 1
      [] dtype = DTypeEth -> 6
      [] dtype = DTypeShort -> 2
      [] OTHER -> 0

\* The length test with >= for ==.
evalLenOkAtLeast(dtype, n) == n >= evalLen(dtype)

\* The length tests of GetEData: len(a.data) == 4, 8, 16, 1, 6, 2.
evalLenOk(dtype, n) == n = evalLen(dtype)

\* The value (a *Attr).GetEData computes when none is cached.
evalData(a) ==
    LET raw == Val("bytes", a.data)
    IN  IF a.ad = Nil THEN raw
        ELSE IF a.ad.enc # AttrEncNone THEN raw
        ELSE IF a.ad.dtype = DTypeString THEN Val("string", Bytes(a.data))
        ELSE IF evalLen(a.ad.dtype) = 0 \/ ~evalLenOk(a.ad.dtype, a.data.len) THEN raw
        ELSE CASE a.ad.dtype = DTypeIP4 -> Val("ip", a.data)
               [] a.ad.dtype = DTypeInt -> Val("uint32", BigEndian(a.data, 2))
               [] a.ad.dtype = DTypeInt64 -> Val("uint64", BigEndian(a.data, 4))
               [] a.ad.dtype = DTypeDate ->
                      Val("time", [sec |-> <<0, 0>> \o BigEndian(a.data, 2), nsec |-> 0])
               [] a.ad.dtype = DTypeIfID -> Val("uint64", BigEndian(a.data, 4))
               [] a.ad.dtype = DTypeIP6 -> Val("ip", a.data)
               [] a.ad.dtype = DTypeByte -> Val("byte", At(a.data, 0))
               [] a.ad.dtype = DTypeEth -> Val("hwaddr", a.data)
               [] a.ad.dtype = DTypeShort -> Val("uint16", BigEndian(a.data, 1)[1])

\* (a *Attr) GetEData: the cached value if there is one.
GetEData(a) == IF a.edata # Nil THEN a.edata ELSE evalData(a)

\* net.IP.To4: [ok, ip]; a 16-byte address must be ::ffff:a.b.c.d
To4(ip) ==
    IF ip.len = 4 THEN [ok |-> TRUE, ip |-> ip]
    ELSE IF /\ ip.len = 16
            /\ \A i \in 0..9 : At(ip, i) = 0
            /\ At(ip, 10) = 255
            /\ At(ip, 11) = 255
         THEN [ok |-> TRUE, ip |-> SubSlice(ip, 12, 16)]
    ELSE [ok |-> FALSE, ip |-> NilSlice]

\* net.IP.To16: [ok, ip]; a 4-byte address becomes ::ffff:a.b.c.d
To16(ip) ==
    IF ip.len = 4
    THEN [ok |-> TRUE,
          ip |-> MakeSlice([i \in 1..10 |-> 0] \o <<255, 255>> \o Bytes(ip))]
    ELSE IF ip.len = 16 THEN [ok |-> TRUE, ip |-> ip]
    ELSE [ok |-> FALSE, ip |-> NilSlice]

ConvErr == [err |-> "errInvalidFormat", data |-> NilSlice]
ConvOk(d) == [err |-> "nil", data |-> d]

\* attrConv(ad, v): [err, data]
attrConv(dtype, v) ==
    CASE dtype = DTypeRaw -> IF v.k = "bytes" THEN ConvOk(v.v) ELSE ConvErr
      [] dtype = DTypeString -> IF v.k = "string" THEN ConvOk(MakeSlice(v.v)) ELSE ConvErr
      [] dtype = DTypeIP4 ->
             IF v.k = "ip" /\ To4(v.v).ok THEN ConvOk(To4(v.v).ip) ELSE ConvErr
      [] dtype = DTypeInt ->
             IF v.k = "uint32" THEN ConvOk(MakeSlice(PutBigEndian(v.v))) ELSE ConvErr
      [] dtype = DTypeInt64 ->
             IF v.k = "uint64" THEN ConvOk(MakeSlice(PutBigEndian(v.v))) ELSE ConvErr
      [] dtype = DTypeDate ->
             IF v.k = "time" THEN ConvOk(MakeSlice(PutBigEndian(Low32(v.v.sec))))
             ELSE IF v.k = "int64" THEN ConvOk(MakeSlice(PutBigEndian(Low32(v.v))))
             ELSE ConvErr
      [] dtype = DTypeIfID ->
             IF v.k = "uint64" THEN ConvOk(MakeSlice(PutBigEndian(v.v))) ELSE ConvErr
      [] dtype = DTypeIP6 ->
             IF v.k = "ip" /\ To16(v.v).ok THEN ConvOk(To16(v.v).ip) ELSE ConvErr
      [] dtype = DTypeByte -> IF v.k = "byte" THEN ConvOk(MakeSlice(<<v.v>>)) ELSE ConvErr
      [] dtype = DTypeEth ->
             IF v.k = "hwaddr" /\ v.v.len = 6 THEN ConvOk(v.v) ELSE ConvErr
      [] dtype = DTypeShort ->
             IF v.k = "uint16" THEN ConvOk(MakeSlice(PutBigEndian(<<v.v>>))) ELSE ConvErr
      [] OTHER -> ConvErr

\* (a *Attr) IsVSA
IsVSA(a) == a.atype = AttrVSA

\* The append made whatever the conversion answered.
addAttrAppendsAlways(err) == TRUE

\* AddAttr reaches its append only past the two error returns.
addAttrAppends(err) == err = "nil"

\* (p *Packet) AddAttr on a non-nil p: [err, append, attr], attr the Attr
\* built and append whether it is appended to p.attrs.
addAttr(d, p, atype, vid, vtype, tag, data) ==
    LET def == GetAttrByAttrFull(d, atype, vid, vtype)
        a0 == [ZeroAttr EXCEPT !.atype = atype, !.ad = def]
        a1 == IF IsVSA(a0) THEN [a0 EXCEPT !.vid = vid, !.vtype = vtype] ELSE a0
        conv == IF def = Nil
                THEN IF data.k = "bytes" THEN ConvOk(data.v) ELSE ConvErr
                ELSE attrConv(def.dtype, data)
        a2 == [a1 EXCEPT !.data = conv.data,
                         !.tag = IF def # Nil /\ IsTagged(def) THEN tag ELSE 0]
        a3 == IF IsVSA(a2)
              THEN [a2 EXCEPT !.alen = (a2.data.len + 8) % 256,
                              !.vlen = (a2.data.len + 2) % 256]
              ELSE [a2 EXCEPT !.alen = (a2.data.len + 2) % 256]
    IN  [err |-> conv.err, append |-> addAttrAppends(conv.err),
         attr |-> [a3 EXCEPT !.pkt = p]]

\* (p *Packet) Serialize: return nil
Serialize(p) == NilSlice

-----------------------------------------------------------------------------
(* A populated dictionary, evaluation and the encode side                  *)

\* The name of the definition of attribute type t: two letters.
DefName(t) == <<65 + (t % 26), 97 + (t \div 26)>>

\* The registrations made at startup,
\* <<atype, vid, vtype, dtype, enc, tagged>>: one plain attribute per data
\* type, an encrypted one, a tagged one and a vendor attribute.
StdDefs ==
    <<<<1, 0, 0, DTypeString, AttrEncNone, FALSE>>,
      <<2, 0, 0, DTypeInt, AttrEncUsr, FALSE>>,
      <<4, 0, 0, DTypeIP4, AttrEncNone, FALSE>>,
      <<5, 0, 0, DTypeInt, AttrEncNone, FALSE>>,
      <<6, 0, 0, DTypeInt64, AttrEncNone, FALSE>>,
      <<7, 0, 0, DTypeDate, AttrEncNone, FALSE>>,
      <<8, 0, 0, DTypeIfID, AttrEncNone, FALSE>>,
      <<9, 0, 0, DTypeIP6, AttrEncNone, FALSE>>,
      <<10, 0, 0, DTypeByte, AttrEncNone, FALSE>>,
      <<11, 0, 0, DTypeEth, AttrEncNone, FALSE>>,
      <<12, 0, 0, DTypeShort, AttrEncNone, FALSE>>,
      <<13, 0, 0, DTypeIP4Pfx, AttrEncNone, FALSE>>,
      <<14, 0, 0, DTypeIP6Pfx, AttrEncNone, FALSE>>,
      <<15, 0, 0, DTypeSInt, AttrEncNone, FALSE>>,
      <<16, 0, 0, DTypeVSA, AttrEncNone, FALSE>>,
      <<17, 0, 0, DTypeRaw, AttrEncNone, FALSE>>,
      <<64, 0, 0, DTypeInt, AttrEncNone, TRUE>>,
      <<26, 311, 1, DTypeInt, AttrEncNone, FALSE>>>>

\* MustAddAttrFull for each registration of defs in turn.
RECURSIVE Populate(_, _)
Populate(d, defs) ==
    IF defs = <<>> THEN d
    ELSE LET x == Head(defs)
         IN  Populate(AddAttrFull(d, DefName(x[1] + x[3]), x[1], x[2], x[3], x[4], x[5], x[6]).dict,
                      Tail(defs))

StdDict == Populate(EmptyDict, StdDefs)

\* n bytes a, a+d, a+2d, ... (mod 256)
Pat(n, a, d) == [i \in 1..n |-> (a + d * (i - 1)) % 256]

\* The identities of the encode and evaluation calls: every registered one,
\* an unknown plain type, an unknown vendor type, a plain type with vendor
\* arguments.
StdIdents ==
    {<<StdDefs[i][1], StdDefs[i][2], StdDefs[i][3]>> : i \in 1..Len(StdDefs)}
    \cup {<<99, 0, 0>>, <<26, 311, 2>>, <<1, 311, 1>>}

\* The value lengths of the attributes evaluated.
EvalLens == {0, 1, 2, 3, 4, 5, 6, 7, 8, 9, 15, 16, 17}
MaxEvalAttrs == 1

\* The values handed to AddAttr.
BuildValues ==
    {Val("bytes", MakeSlice(Pat(254, 200, 37))), Val("string", Pat(2, 97, 1))}
    \cup {Val("ip", MakeSlice(x)) :
            x \in {Pat(10, 0, 0) \o <<255, 255, 10, 0, 0, 1>>,
                   Pat(16, 32, 1), Pat(5, 1, 1)}}
    \cup {Val("uint32", <<65535, 258>>), Val("uint64", <<1, 2, 3, 65535>>),
          Val("time", [sec |-> <<0, 1, 0, 5>>, nsec |-> 7]),
          Val("int64", <<65535, 65535, 65535, 65535>>),
          Val("byte", 255), Val("uint16", 258), Val("int", 5)}
    \cup {Val("hwaddr", MakeSlice(Pat(n, 2, 2))) : n \in {5, 6}}
BuildTags == {0, 3}
MaxAttrs == 2

\* pkt.parseAttr(at, ad) as the loop of ParsePacket calls it.
ParseAttrCall(at, ad) ==
    /\ ps.pc = "none"
    /\ Len(heap) < MaxEvalAttrs
    /\ LET pa == parseAttr(dict, 1, at, ad)
           ap == appendAttr(pkts, heap, 1, pa.attr)
       IN  IF pa.panic THEN ParsePanic /\ UNCHANGED <<heap, pkts>>
           ELSE heap' = ap.heap /\ pkts' = ap.pkts /\ ps' = ps
    /\ UNCHANGED <<dict, mu, procs, succ, call>>

\* One iteration of the loop of parseVSA on vendor vid: type vt, value vd.
ParseVSAAttrCall(vid, vt, vd) ==
    /\ ps.pc = "none"
    /\ Len(heap) < MaxEvalAttrs
    /\ LET pa == parseVSAAttr(dict, 1, vid, vt, vd)
           ap == appendAttr(pkts, heap, 1, pa.attr)
       IN  IF pa.panic THEN ParsePanic /\ UNCHANGED <<heap, pkts>>
           ELSE heap' = ap.heap /\ pkts' = ap.pkts /\ ps' = ps
    /\ UNCHANGED <<dict, mu, procs, succ, call>>

\* heap[i].GetEData(): the value is cached in edata and returned.
GetEDataCall(i) ==
    /\ ps.pc = "none"
    /\ heap' = [heap EXCEPT ![i].edata = GetEData(heap[i])]
    /\ call' = [call EXCEPT !.op = "GetEData", !.err = "nil", !.val = GetEData(heap[i])]
    /\ UNCHANGED <<dict, mu, procs, succ, pkts, ps>>

\* attrConv(heap[i].ad.dtype, heap[i].GetEData()) on an evaluated attribute
\* with a definition: the conversion back of the value to bytes.
AttrConvCall(i) ==
    /\ ps.pc = "none"
    /\ heap[i].edata # Nil
    /\ heap[i].ad # Nil
    /\ LET r == attrConv(heap[i].ad.dtype, GetEData(heap[i]))
       IN  call' = [call EXCEPT !.op = "attrConv", !.err = r.err,
                                !.val = [attr |-> i, data |-> r.data]]
    /\ UNCHANGED <<dict, mu, procs, succ, heap, pkts, ps>>

\* The dictionary is populated and ParsePacket has built a Packet from a
\* header.
InitEval ==
    /\ dict = StdDict
    /\ mu = MuFree
    /\ procs = <<>>
    /\ succ = <<>>
    /\ heap = <<>>
    /\ pkts = <<ZeroPacket>>
    /\ ps = NoParse
    /\ call = NoCall

NextEval ==
    \/ \E id \in StdIdents, n \in EvalLens :
          /\ id[1] # AttrVSA
          /\ ParseAttrCall(id[1], MakeSlice(Pat(n, 1, 50)))
    \/ \E id \in StdIdents, n \in EvalLens :
          /\ id[1] = AttrVSA
          /\ ParseVSAAttrCall(id[2], id[3], MakeSlice(Pat(n, 1, 50)))
    \/ \E i \in 1..Len(heap) : GetEDataCall(i)
    \/ \E i \in 1..Len(heap) : AttrConvCall(i)

SpecEval == InitEval /\ [][NextEval]_vars

\* p.AddAttr(atype, vid, vtype, tag, data); p = 0 is the nil *Packet.
AddAttrCall(p, id, tag, data) ==
    /\ ps.pc = "none"
    /\ IF p = 0
       THEN /\ call' = [call EXCEPT !.op = "AddAttr", !.err = "Packet empty"]
            /\ UNCHANGED <<heap, pkts>>
       ELSE /\ Len(pkts[p].attrs) < MaxAttrs
            /\ LET r == addAttr(dict, p, id[1], id[2], id[3], tag, data)
                   ap == appendAttr(pkts, heap, p, r.attr)
               IN  /\ call' = [call EXCEPT !.op = "AddAttr", !.err = r.err]
                   /\ heap' = IF r.append THEN ap.heap ELSE heap
                   /\ pkts' = IF r.append THEN ap.pkts ELSE pkts
    /\ UNCHANGED <<dict, mu, procs, succ, ps>>

\* roundup64(x): x rounded up to a multiple of 64
roundup64(x) == IF x % 64 # 0 THEN x + 64 - (x % 64) ELSE x

\* The loop of BufCalc over the attributes attrs: sum += int(a.alen)
RECURSIVE bufSum(_, _)
bufSum(h, attrs) ==
    IF attrs = <<>> THEN MinPLen
    ELSE bufSum(h, SubSeq(attrs, 1, Len(attrs) - 1)) + h[attrs[Len(attrs)]].alen

\* (p *Packet) BufCalc on a non-nil p
BufCalc(h, p) == roundup64(bufSum(h, p.attrs))

\* ParsePacket(p.Serialize()).  Serialize returns nil, which ParsePacket
\* refuses in its header tests.
RoundTrip(p) ==
    /\ ps.pc = "none"
    /\ ParsePacketStart(Bytes(Serialize(pkts[p])))

\* The packet under construction: a reply shell with id 7 and the request's
\* authenticator.
ReplyShell ==
    [ZeroPacket EXCEPT !.id = 7, !.auth = MakeSlice(Pat(16, 101, 1)), !.reply = TRUE]

InitBuild ==
    /\ dict = StdDict
    /\ mu = MuFree
    /\ procs = <<>>
    /\ succ = <<>>
    /\ heap = <<>>
    /\ pkts = <<ReplyShell>>
    /\ ps = NoParse
    /\ call = NoCall

NextBuild ==
    \/ /\ ps.pc = "none"
       /\ \E id \in StdIdents, tag \in BuildTags, data \in BuildValues :
             \* the tag is varied for the tagged definition only
             /\ tag = 0 => id[1] = 64
             /\ AddAttrCall(1, id, tag, data)
    \/ /\ ps.pc = "none"
       /\ \E id \in StdIdents : AddAttrCall(0, id, 0, Val("bytes", NilSlice))
    \/ RoundTrip(1)

SpecBuild == InitBuild /\ [][NextBuild]_vars

-----------------------------------------------------------------------------
(* Packets that exchange attributes: AddAttrSimple                         *)

\* (p *Packet) AddAttrSimple(attr) on non-nil p and attr: [heap, pkts]
addAttrSimple(ks, h, p, a) ==
    [heap |-> [h EXCEPT ![a].pkt = p],
     pkts |-> [ks EXCEPT ![p].attrs = Append(@, a)]]

\* The caller built heap[a] as &Attr{}: no accessor hands out the
\* attributes of a packet.
CallerBuilt(a) == [heap[a] EXCEPT !.pkt = 0] = ZeroAttr

\* p.AddAttrSimple(attr); p = 0 and a = 0 are nil, a = Len(heap) + 1 is an
\* Attr the caller allocates for this call.
AddAttrSimpleCall(p, a) ==
    /\ ps.pc \in {"none", "done"}
    /\ a \in 1..Len(heap) => CallerBuilt(a)
    /\ LET h == IF a = Len(heap) + 1 THEN Append(heap, ZeroAttr) ELSE heap
       IN  IF p = 0
           THEN /\ call' = [call EXCEPT !.op = "AddAttrSimple", !.err = "nil"]
                /\ UNCHANGED <<heap, pkts, ps>>
           ELSE IF a = 0
           THEN ParsePanic /\ UNCHANGED <<heap, pkts, call>>
           ELSE /\ Len(pkts[p].attrs) < MaxAttrs
                /\ call' = [call EXCEPT !.op = "AddAttrSimple", !.err = "nil"]
                /\ heap' = addAttrSimple(pkts, h, p, a).heap
                /\ pkts' = addAttrSimple(pkts, h, p, a).pkts
                /\ ps' = ps
    /\ UNCHANGED <<dict, mu, procs, succ>>

\* The packets the caller holds before any ParsePacket.
CallerPackets == {1, 2}

\* The arguments of AddAttr and the buffers of ParsePacket used here: a
\* string and a vendor uint32; a plain attribute and a VSA, and a plain
\* attribute followed by one that overruns the buffer.
OwnIdents == {<<1, 0, 0>>, <<26, 311, 1>>}
OwnValues == {Val("string", Pat(2, 97, 1)), Val("uint32", <<65535, 258>>)}
OwnBufs ==
    {Header(20 + Len(b)) \o b :
        b \in {<<1, 4, 97, 98, 26, 9, 0, 0, 1, 55, 1, 3, 5>>, <<1, 4, 97, 98, 5, 9>>}}

InitOwn ==
    /\ dict = StdDict
    /\ mu = MuFree
    /\ procs = <<>>
    /\ succ = <<>>
    /\ heap = <<>>
    /\ pkts = <<ReplyShell, ReplyShell>>
    /\ ps = NoParse
    /\ call = NoCall

NextOwn ==
    \/ \E p \in CallerPackets \cup {0}, a \in 0..(Len(heap) + 1) : AddAttrSimpleCall(p, a)
    \/ \E p \in CallerPackets, id \in OwnIdents, data \in OwnValues :
          AddAttrCall(p, id, 0, data)
    \/ \E b \in OwnBufs : ParsePacketStart(b)
    \/ ParsePacketAttr
    \/ ParseVSAAttr
    \/ ParseVSAReturn
    \/ ParsePacketReturn

SpecOwn == InitOwn /\ [][NextOwn]_vars

-----------------------------------------------------------------------------
(* The dictionary used by several goroutines                               *)

NumGoroutines == 2
Goroutines == 1..NumGoroutines

\* Names as character codes: "Foo", "FOO", "Bar".
DictNames == {<<70, 111, 111>>, <<70, 79, 79>>, <<66, 97, 114>>}
\* <<atype, vid, vtype>> of the registrations and lookups.
DictIdents == {<<1, 0, 0>>, <<1, 9, 1>>, <<26, 9, 1>>}
DictDTypes == {DTypeString}

IdleProc == [pc |-> "idle", args |-> Nil, res |-> Nil]

\* AddAttrFull: the keys are computed, then attrDict.Lock().
AddAttrFullLock(g, name, id, dtype, enc, tagged) ==
    /\ procs[g].pc = "idle"
    /\ CanLock(mu)
    /\ mu' = Lock(mu, g)
    /\ procs' = [procs EXCEPT ![g] =
            [pc |-> "add_check",
             args |-> [aKey |-> attrKey(id[1], id[2], id[3]),
                       nKey |-> nameKey(name),
                       attr |-> AttrData(name, id[1], id[2], id[3], dtype, enc, tagged)],
             res |-> Nil]]
    /\ UNCHANGED <<dict, succ, heap, pkts, ps, call>>

\* AddAttrFull: the two map reads; on okName || okAttr the error return,
\* with the deferred Unlock.
AddAttrFullCheck(g) ==
    /\ procs[g].pc = "add_check"
    /\ IF AddExists(dict, procs[g].args.nKey, procs[g].args.aKey)
       THEN /\ procs' = [procs EXCEPT ![g].pc = "idle", ![g].res = [err |-> TRUE]]
            /\ mu' = Unlock(mu)
       ELSE /\ procs' = [procs EXCEPT ![g].pc = "add_byName"]
            /\ mu' = mu
    /\ UNCHANGED <<dict, succ, heap, pkts, ps, call>>

\* attrDict.byName[nKey] = attr
AddAttrFullPutName(g) ==
    /\ procs[g].pc = "add_byName"
    /\ dict' = [dict EXCEPT !.byName = MapPut(@, procs[g].args.nKey, procs[g].args.attr)]
    /\ procs' = [procs EXCEPT ![g].pc = "add_byAttr"]
    /\ UNCHANGED <<mu, succ, heap, pkts, ps, call>>

\* attrDict.byAttr[aKey] = attr; return nil, with the deferred Unlock.
AddAttrFullPutAttr(g) ==
    /\ procs[g].pc = "add_byAttr"
    /\ dict' = [dict EXCEPT !.byAttr = MapPut(@, procs[g].args.aKey, procs[g].args.attr)]
    /\ procs' = [procs EXCEPT ![g].pc = "idle", ![g].res = [err |-> FALSE]]
    /\ mu' = Unlock(mu)
    /\ succ' = Append(succ, procs[g].args.attr)
    /\ UNCHANGED <<heap, pkts, ps, call>>

\* GetAttrByName: the key is computed, then attrDict.RLock().
GetAttrByNameRLock(g, name) ==
    /\ procs[g].pc = "idle"
    /\ CanRLock(mu)
    /\ mu' = RLock(mu, g)
    /\ procs' = [procs EXCEPT ![g] =
            [pc |-> "name_read", args |-> [nKey |-> nameKey(name)], res |-> Nil]]
    /\ UNCHANGED <<dict, succ, heap, pkts, ps, call>>

\* GetAttrByName: the map read and the return, with the deferred RUnlock.
GetAttrByNameRead(g) ==
    /\ procs[g].pc = "name_read"
    /\ procs' = [procs EXCEPT ![g].pc = "idle",
                              ![g].res = [ad |-> MapGet(dict.byName, procs[g].args.nKey)]]
    /\ mu' = RUnlock(mu, g)
    /\ UNCHANGED <<dict, succ, heap, pkts, ps, call>>

\* GetAttrByAttrFull: the key is computed, then attrDict.RLock().
GetAttrByAttrFullRLock(g, id) ==
    /\ procs[g].pc = "idle"
    /\ CanRLock(mu)
    /\ mu' = RLock(mu, g)
    /\ procs' = [procs EXCEPT ![g] =
            [pc |-> "attr_read", args |-> [aKey |-> attrKey(id[1], id[2], id[3])],
             res |-> Nil]]
    /\ UNCHANGED <<dict, succ, heap, pkts, ps, call>>

\* GetAttrByAttrFull: the map read and the return, with the deferred RUnlock.
GetAttrByAttrFullRead(g) ==
    /\ procs[g].pc = "attr_read"
    /\ procs' = [procs EXCEPT ![g].pc = "idle",
                              ![g].res = [ad |-> MapGet(dict.byAttr, procs[g].args.aKey)]]
    /\ mu' = RUnlock(mu, g)
    /\ UNCHANGED <<dict, succ, heap, pkts, ps, call>>

InitDict ==
    /\ dict = EmptyDict
    /\ mu = MuFree
    /\ procs = [g \in Goroutines |-> IdleProc]
    /\ succ = <<>>
    /\ heap = <<>>
    /\ pkts = <<>>
    /\ ps = NoParse
    /\ call = NoCall

NextDict ==
    \E g \in Goroutines :
        \/ \E name \in DictNames, id \in DictIdents, dtype \in DictDTypes :
               AddAttrFullLock(g, name, id, dtype, AttrEncNone, FALSE)
        \/ AddAttrFullCheck(g)
        \/ AddAttrFullPutName(g)
        \/ AddAttrFullPutAttr(g)
        \/ \E name \in DictNames : GetAttrByNameRLock(g, name)
        \/ GetAttrByNameRead(g)
        \/ \E id \in DictIdents : GetAttrByAttrFullRLock(g, id)
        \/ GetAttrByAttrFullRead(g)

SpecDict == InitDict /\ [][NextDict]_vars

-----------------------------------------------------------------------------
(* Properties of the decoder, checked under SpecParse                      *)

\* The declared length of the header, bytes 2 and 3 big-endian.
Declared(b) == b.arr[3] * 256 + b.arr[4]

\* The length byte of the TLV a cursor stands on.
LenByte(rb) == At(rb.buf, rb.bp + 1)

\* C2: ParsePacket always completes by returning a Packet or an error: no
\* header read, getAttr framing or tag/data split of a plain or nested
\* attribute indexes out of range (which in Go is a run-time panic), also
\* when a tagged definition meets a value of zero bytes.
C2_DecodeNeverIndexesOutOfRange == ps.pc # "panic"

\* C3: when ParsePacket returns an error met while walking the attribute
\* stream, it returns no Packet, and every Attr built before the error has
\* its back-reference cleared.
C3_DecodeAllOrNothing ==
    (ps.pc = "done" /\ ps.err # "nil") =>
        /\ ps.pkt = 0
        /\ \A i \in 1..Len(heap) : heap[i].pkt = 0

\* C3 witness: an error return after a plain and a nested attribute had
\* been built.
C3_Witness ==
    /\ ps.pc = "done"
    /\ ps.err \in {"errNoData", "errInvalid", "VSA too short"}
    /\ \E i, j \in 1..Len(heap) : heap[i].atype = AttrVSA /\ heap[j].atype # AttrVSA

\* C4: a buffer shorter than 20 bytes, or whose declared length is below
\* 20, above 4096 or above the buffer's length, makes ParsePacket return an
\* error and no Packet, without an out-of-range read.
C4_HeaderValidation ==
    LET n == ps.buf.len
        bad == IF n < 20 THEN TRUE
               ELSE Declared(ps.buf) < 20 \/ Declared(ps.buf) > 4096 \/ Declared(ps.buf) > n
    IN  (ps.pc # "none" /\ bad) =>
            /\ ps.pc = "done"
            /\ ps.err # "nil"
            /\ ps.pkt = 0
            /\ pkts = <<>>

\* C4 witness: a 4097-byte buffer declaring 4097 bytes is refused.
C4_Witness ==
    /\ ps.pc = "done"
    /\ ps.buf.len = 4097
    /\ Declared(ps.buf) = 4097
    /\ ps.err = "Packet len error"

\* What getAttr must do on a cursor with at least 2 bytes left.
GetAttrContract(rb) ==
    LET r == getAttr(rb)
        lb == LenByte(rb)
    IN  /\ ~r.panic
        /\ lb < 2 => r.err = "errInvalid"
        /\ (lb >= 2 /\ lb - 2 > rb.bl - 2) => r.err = "errNoData"
        /\ (lb >= 2 /\ lb - 2 <= rb.bl - 2) =>
              /\ r.err = "nil"
              /\ r.t = At(rb.buf, rb.bp)
              /\ Bytes(r.v) = SubSeq(Bytes(rb.buf), rb.bp + 3, rb.bp + lb)
              /\ r.rb.bp = rb.bp + lb
              /\ r.rb.bl = rb.bl - lb
              /\ r.rb.buf = rb.buf

\* C5: on every cursor the decoder reaches with at least 2 bytes left,
\* getAttr fails with errInvalid on a length byte of 0 or 1, fails with
\* errNoData when length-2 exceeds what is left after the header, and
\* otherwise returns exactly the length-2 bytes after the header and
\* advances the cursor by the length byte.
C5_GetAttrLengthIntegrity ==
    /\ (ps.pc = "loop" /\ ps.rb.bl >= 2) => GetAttrContract(ps.rb)
    /\ (ps.pc = "vloop" /\ ps.vrb.bl >= 2) => GetAttrContract(ps.vrb)

\* C5 witness: a cursor that has advanced over one TLV and stands on a TLV
\* whose length overruns what is left.
C5_Witness ==
    /\ ps.pc = "loop"
    /\ ps.rb.bp > 0
    /\ ps.rb.bl >= 2
    /\ LenByte(ps.rb) > ps.rb.bl

\* C6: while a VSA body is walked, the nested cursor covers exactly the
\* body after the vendor id, the nested TLV read next and the nested
\* attribute built last lie inside it, and a nested length reaching past
\* the body is an error.
C6_VSAIsolation ==
    ps.pc = "vloop" =>
        LET lo == ps.adata.off + 4
            hi == ps.adata.off + ps.adata.len
            rb == ps.vrb
        IN  /\ rb.buf.off = lo
            /\ rb.buf.off + rb.buf.len = hi
            /\ rb.bp >= 0
            /\ rb.bp + rb.bl = rb.buf.len
            /\ rb.bp > 0 =>
                  LET a == heap[Len(heap)]
                  IN  /\ a.atype = AttrVSA
                      /\ a.data.off >= lo
                      /\ a.data.off + a.data.len <= lo + rb.bp
            /\ rb.bl >= 2 =>
                  LET r == getAttr(rb)
                  IN  /\ ~r.panic
                      /\ LenByte(rb) > rb.bl => r.err # "nil"
                      /\ r.err = "nil" =>
                            /\ r.v.off = lo + rb.bp + 2
                            /\ r.v.off + r.v.len <= hi

\* C6 witness: a nested TLV whose length reaches past the VSA body into
\* bytes of the enclosing stream that do exist.
C6_Witness ==
    /\ ps.pc = "vloop"
    /\ ps.vrb.bl >= 2
    /\ LenByte(ps.vrb) > ps.vrb.bl
    /\ LenByte(ps.vrb) <= ps.vrb.bl + ps.rb.bl

-----------------------------------------------------------------------------
(* Properties of the dictionary, checked under SpecDict                    *)

SeqRange(q) == {q[i] : i \in 1..Len(q)}

\* The goroutines between the two map writes of AddAttrFull.
HalfInserted == {procs[g].args.attr : g \in {h \in Goroutines : procs[h].pc = "add_byAttr"}}

\* C7: a registration whose normalized name or composite key is already
\* present never reaches the map writes and fails leaving both indexes as
\* they were: the indexes hold exactly the definitions registered with
\* success, and each of them is what both lookups return.
C7_DictionaryUniqueness ==
    /\ \A i \in 1..Len(succ) :
          /\ GetAttrByName(dict, succ[i].name) = succ[i]
          /\ GetAttrByAttrFull(dict, succ[i].atype, succ[i].vid, succ[i].vtype) = succ[i]
    /\ MapRange(dict.byAttr) = SeqRange(succ)
    /\ MapRange(dict.byName) = SeqRange(succ) \cup HalfInserted
    /\ \A g \in Goroutines :
          procs[g].pc = "add_byName" =>
              ~MapHas(dict.byName, procs[g].args.nKey) /\ ~MapHas(dict.byAttr, procs[g].args.aKey)

\* C7 witness: a registration has been refused while two definitions are
\* registered.
C7_Witness ==
    /\ Len(succ) = 2
    /\ \E g \in Goroutines : procs[g].pc = "idle" /\ procs[g].res = [err |-> TRUE]

\* C8: a goroutine about to read an index under the read lock sees both
\* indexes holding the same definitions and no writer inside AddAttrFull;
\* at most one goroutine is between the check and the inserts; and no two
\* successful registrations share a normalized name or a composite key.
C8_DictionaryAtomicVisibility ==
    LET readers == {g \in Goroutines : procs[g].pc \in {"name_read", "attr_read"}}
        writers == {g \in Goroutines : procs[g].pc \in {"add_check", "add_byName", "add_byAttr"}}
    IN  /\ readers # {} => (writers = {} /\ MapRange(dict.byName) = MapRange(dict.byAttr))
        /\ Cardinality(writers) <= 1
        /\ \A i, j \in 1..Len(succ) :
              i # j => /\ nameKey(succ[i].name) # nameKey(succ[j].name)
                       /\ attrKey(succ[i].atype, succ[i].vid, succ[i].vtype)
                              # attrKey(succ[j].atype, succ[j].vid, succ[j].vtype)

\* C8 witness: two goroutines read the indexes at once after a registration
\* succeeded.
C8_Witness ==
    /\ Len(succ) >= 1
    /\ \E g, h \in Goroutines :
          g # h /\ procs[g].pc = "name_read" /\ procs[h].pc = "attr_read"

-----------------------------------------------------------------------------
(* Properties of evaluation, checked under SpecEval                        *)

\* The exact lengths the data types of fixed width require.
RequiredLen ==
    (DTypeIP4 :> 4) @@ (DTypeInt :> 4) @@ (DTypeInt64 :> 8) @@ (DTypeDate :> 4)
    @@ (DTypeIfID :> 8) @@ (DTypeIP6 :> 16) @@ (DTypeByte :> 1) @@ (DTypeEth :> 6)
    @@ (DTypeShort :> 2)

\* The attribute has been evaluated to its raw bytes.
EvaluatesRaw(a) == a.edata = Val("bytes", a.data)

\* C9: an evaluated attribute with a resolved, unencrypted definition of a
\* fixed-width data type and data of another length has its raw bytes as
\* value; so has an evaluated attribute with no definition or with an
\* encryption kind other than none, whatever its data type and length.  The
\* value returned is the value cached.
C9_GetEDataTypeLengthMatching ==
    /\ \A i \in 1..Len(heap) :
          LET a == heap[i]
          IN  a.edata # Nil =>
                /\ (a.ad = Nil \/ a.ad.enc # AttrEncNone) => EvaluatesRaw(a)
                /\ ( /\ a.ad # Nil
                     /\ a.ad.enc = AttrEncNone
                     /\ a.ad.dtype \in DOMAIN RequiredLen
                     /\ a.data.len # RequiredLen[a.ad.dtype] ) => EvaluatesRaw(a)
    /\ call.op = "GetEData" => \E i \in 1..Len(heap) : heap[i].edata = call.val

\* C9 witness: an attribute of an unencrypted uint32 definition carrying 3
\* or 5 bytes has been evaluated.
C9_Witness ==
    \E i \in 1..Len(heap) :
        /\ heap[i].edata # Nil
        /\ heap[i].ad # Nil
        /\ heap[i].ad.enc = AttrEncNone
        /\ heap[i].ad.dtype = DTypeInt
        /\ heap[i].data.len \in {3, 5}

-----------------------------------------------------------------------------
(* Properties of the encode side, checked under SpecBuild                  *)

\* What the round trip compares of the attribute heap[i].
AttrView(i) ==
    [atype |-> heap[i].atype, vid |-> heap[i].vid, vtype |-> heap[i].vtype,
     tag |-> heap[i].tag, value |-> GetEData(heap[i])]

\* What the round trip compares of the packet pkts[p].
PacketView(p) ==
    [code |-> pkts[p].code, id |-> pkts[p].id, auth |-> Bytes(pkts[p].auth),
     attrs |-> [k \in 1..Len(pkts[p].attrs) |-> AttrView(pkts[p].attrs[k])]]

\* C1: once ParsePacket(p.Serialize()) has returned, it has returned a
\* packet and no error, and the packet's code, id, authenticator and
\* attribute sequence equal those of p.
C1_RoundTrip ==
    ps.pc = "done" =>
        /\ ps.err = "nil"
        /\ ps.pkt # 0
        /\ PacketView(ps.pkt) = PacketView(1)

\* A step of a call of AddAttr.
AddAttrStep == call'.op = "AddAttr" /\ ps' = ps

\* C10: a call of AddAttr that returns an error leaves the packet, its
\* attribute sequence and every attribute as they were; a call that returns
\* no error appends exactly one new attribute at the end of the sequence and
\* changes nothing else.
C10_FailedAddAttrLeavesPacket ==
    [][AddAttrStep =>
         /\ call'.err # "nil" => (pkts' = pkts /\ heap' = heap)
         /\ call'.err = "nil" =>
              /\ Len(heap') = Len(heap) + 1
              /\ \A i \in 1..Len(heap) : heap'[i] = heap[i]
              /\ heap'[Len(heap')].pkt = 1
              /\ pkts'[1].attrs = Append(pkts[1].attrs, Len(heap'))
              /\ [pkts'[1] EXCEPT !.attrs = pkts[1].attrs] = pkts[1]]_vars

\* C10 witness: AddAttr has returned errInvalidFormat on a packet that
\* holds an attribute.
C10_Witness ==
    /\ call.op = "AddAttr"
    /\ call.err = "errInvalidFormat"
    /\ ps.pc = "none"
    /\ Len(pkts[1].attrs) = 1

-----------------------------------------------------------------------------
(* Properties of attribute ownership, checked under SpecOwn                *)

\* The packets a caller can hold: its own and the one ParsePacket returned.
HeldPackets ==
    CallerPackets \cup (IF ps.pc = "done" /\ ps.pkt # 0 THEN {ps.pkt} ELSE {})

\* The attributes in the sequence of pkts[p].
AttrsOf(p) == {pkts[p].attrs[k] : k \in 1..Len(pkts[p].attrs)}

\* C11: between calls, every Attr is in the attribute sequence of at most
\* one Packet, and the back-reference of every Attr in the sequence of a
\* Packet is that Packet.
C11_ExclusiveOwnership ==
    ps.pc \in {"none", "done"} =>
        /\ \A p, q \in HeldPackets : p # q => AttrsOf(p) \cap AttrsOf(q) = {}
        /\ \A p \in HeldPackets : \A a \in AttrsOf(p) : heap[a].pkt = p

-----------------------------------------------------------------------------
(* The vendor ids of a decoded packet, checked under SpecParse             *)

\* The vendor ids of the VSA attributes of pkts[p].
VendorsOf(p) == {heap[a].vid : a \in {x \in AttrsOf(p) : heap[x].atype = AttrVSA}}

\* C12: when ParsePacket has returned a packet, the packet's vendor-id list
\* holds exactly the vendor ids of its VSA attributes, each once; it is
\* empty when the packet has no VSA attribute.
C12_VendorIdSet ==
    (ps.pc = "done" /\ ps.err = "nil" /\ ps.pkt # 0) =>
        LET vids == pkts[ps.pkt].vids
        IN  /\ {vids[k] : k \in 1..Len(vids)} = VendorsOf(ps.pkt)
            /\ Len(vids) = Cardinality(VendorsOf(ps.pkt))
            /\ VendorsOf(ps.pkt) = {} => vids = <<>>

\* C12 witness: a decoded packet with three VSA attributes of two vendors.
C12_Witness ==
    /\ ps.pc = "done"
    /\ ps.err = "nil"
    /\ ps.pkt # 0
    /\ Cardinality({x \in AttrsOf(ps.pkt) : heap[x].atype = AttrVSA}) = 3
    /\ Cardinality(VendorsOf(ps.pkt)) = 2

-----------------------------------------------------------------------------
(* The lengths AddAttr stores, checked under SpecBuild                     *)

\* The value bytes of heap[a] on the wire: the tag byte of a tagged
\* definition, then the data.
WireValueLen(a) ==
    heap[a].data.len + (IF heap[a].ad # Nil /\ heap[a].ad.tagged THEN 1 ELSE 0)

\* The bytes heap[a] takes on the wire: type and length, for a VSA the
\* vendor id and the nested type and length, then the value.
WireSize(a) == WireValueLen(a) + (IF heap[a].atype = AttrVSA THEN 8 ELSE 2)

RECURSIVE WireSizeSum(_)
WireSizeSum(attrs) ==
    IF attrs = <<>> THEN 0 ELSE WireSize(Head(attrs)) + WireSizeSum(Tail(attrs))

\* C13: every attribute AddAttr has appended stores as its length the
\* number of its value bytes on the wire plus 2, plus 8 for a VSA, whose
\* nested length is that number plus 2; and the sum BufCalc rounds up is 20
\* plus the bytes the attributes take on the wire.
C13_StoredWireLength ==
    /\ \A k \in 1..Len(pkts[1].attrs) :
          LET a == pkts[1].attrs[k]
          IN  IF heap[a].atype = AttrVSA
              THEN /\ heap[a].alen = WireValueLen(a) + 8
                   /\ heap[a].vlen = WireValueLen(a) + 2
              ELSE heap[a].alen = WireValueLen(a) + 2
    /\ bufSum(heap, pkts[1].attrs) = MinPLen + WireSizeSum(pkts[1].attrs)
    /\ BufCalc(heap, pkts[1]) >= MinPLen + WireSizeSum(pkts[1].attrs)

-----------------------------------------------------------------------------
(* Conversion against evaluation, checked under SpecEval                   *)

\* C14: attrConv applied to the data type of an unencrypted definition and
\* to the value GetEData produced for bytes of the length the type requires
\* (any length for a type without a required length) returns no error and
\* the bytes evaluated.
C14_ConversionMirrorsEvaluation ==
    call.op = "attrConv" =>
        LET a == heap[call.val.attr]
        IN  ( /\ a.ad.enc = AttrEncNone
              /\ a.ad.dtype \in DOMAIN RequiredLen => a.data.len = RequiredLen[a.ad.dtype] )
            => /\ call.err = "nil"
               /\ Bytes(call.val.data) = Bytes(a.data)

-----------------------------------------------------------------------------
(* Decoding against the declared length, checked under SpecParse           *)

\* The bytes b[lo+1..hi] split into TLVs (at most one byte left over), each
\* with a length byte of at least 2 that stays inside; at the top level a
\* TLV of type 26 has a value of at least 6 bytes whose bytes after the
\* vendor id split into TLVs in the same way.
RECURSIVE WellFormed(_, _, _, _)
WellFormed(b, lo, hi, top) ==
    IF hi - lo < 2 THEN TRUE
    ELSE LET l == b[lo + 2]
         IN  /\ l >= 2
             /\ lo + l <= hi
             /\ (top /\ b[lo + 1] = AttrVSA) =>
                   (l - 2 >= 6 /\ WellFormed(b, lo + 6, lo + l, FALSE))
             /\ WellFormed(b, lo + l, hi, top)

\* C15: when ParsePacket has returned a packet, the data of each of its
\* attributes lies in the buffer between offset 20 and the declared length;
\* and ParsePacket returns no error on a buffer whose bytes between offset
\* 20 and the declared length are well-formed, whatever follows them.
C15_DecodeConfinedToDeclaredLength ==
    /\ (ps.pc = "done" /\ ps.err = "nil" /\ ps.pkt # 0) =>
          \A a \in AttrsOf(ps.pkt) :
              /\ heap[a].data.arr = ps.buf.arr
              /\ heap[a].data.off >= MinPLen
              /\ heap[a].data.off + heap[a].data.len <= ps.pl
    /\ ( /\ ps.pc = "done"
         /\ headerCheck(ps.buf).res = "ok"
         /\ WellFormed(ps.buf.arr, MinPLen, ps.pl, TRUE) ) => ps.err = "nil"

=============================================================================
